---- MODULE Spec2Model ----
(***************************************************************************)
(* A model of the IR core in src/cpp/IR.h: reference-counted handles       *)
(* (IRHandle, Expr, Stmt) over immutable nodes (IRNode and the 35 node     *)
(* kinds), node construction with its asserts, and accept/visit dispatch.  *)
(*                                                                         *)
(* A node is identified by its address.  Storage that `delete` has freed   *)
(* may be handed out again by a later `new`.  ref_count[p] is the content  *)
(* of the ref_count word at address p, also after the node there has been  *)
(* freed (a write through a dangling pointer changes it).                  *)
(***************************************************************************)
EXTENDS Integers, Sequences, FiniteSets, TLC

\* ---------------------------------------------------------------- bounds
\* addresses of the heap
MaxNodes == 7
MaxHandles == 3
\* operations followed after the program has first read freed storage
MaxAfterFault == 1
\* nodes the lifecycle specification keeps allocated at a time
MaxLifecycleNodes == 2
\* nodes the catalog specification keeps allocated at a time
MaxCatalogNodes == 3
\* elements of a vector argument (args, bounds)
MaxVec == 1
\* concurrent visitors
MaxVisitors == 2
\* Blocks the Block chain specification keeps allocated at a time
MaxBlocks == 3
\* nodes the concurrent reading specification keeps allocated at a time
MaxReadNodes == 2
\* threads running handle operations, and the nodes they keep allocated
MaxThreads == 2
MaxConcNodes == 1
\* handle operations the threads start in all
MaxOps == 4

NULL == 0
Node == 1..MaxNodes
Ptr == Node \cup {NULL}
Handle == 1..MaxHandles
Visitor == 1..MaxVisitors
Thread == 1..MaxThreads

VARIABLES
    live,        \* addresses holding a constructed, not yet deleted node
    ref_count,   \* IRNode::ref_count, the word at each address
    kind,        \* concrete type of the node at each address ("none": freed)
    fields,      \* the handles stored in the node, in declaration order
    hset,        \* the caller's handle objects that currently exist
    hnd,         \* IRHandle::node of each caller handle
    corrupt,     \* "no", or how the process broke: "double free", "wild pointer"
    aborted,     \* an assert of a node constructor has failed
    faulted,     \* operations run since the first read of freed storage, it included
    request,     \* ghost: the arguments of the constructor call that ran last
    accepted,    \* ghost: the node of the handle accept was last called on
    root,        \* the node each visitor started its traversal on
    stack,       \* the accept calls each visitor still has to make
    visited,     \* the visit operations each visitor has received, in order
    probe,       \* what each visitor read with sameAs() before it started
    pc,          \* where each thread is within its handle operation
    reg,         \* the share count each thread has read and not yet written back
    cur,         \* the handle operation each thread is running
    lock,        \* the thread that holds the callers' lock (0: nobody)
    sync,        \* whether the callers serialize handle operations with the lock
    started      \* handle operations the threads have started

heapVars == <<live, ref_count, kind, fields, corrupt>>
visitVars == <<accepted, root, stack, visited, probe>>
concVars == <<pc, reg, cur, lock, sync, started>>
vars == <<live, ref_count, kind, fields, hset, hnd, corrupt, aborted, faulted,
          request, visitVars, concVars>>

\* ------------------------------------------------------------ node catalog
ExprKinds == {"IntImm", "FloatImm", "Cast", "Var", "Add", "Sub", "Mul", "Div",
              "Mod", "Min", "Max", "EQ", "NE", "LT", "LE", "GT", "GE", "And",
              "Or", "Not", "Select", "Load", "Ramp", "Call", "Let"}
StmtKinds == {"LetStmt", "PrintStmt", "AssertStmt", "Pipeline", "For", "Store",
              "Provide", "Allocate", "Realize", "Block"}
Kinds == ExprKinds \cup StmtKinds

BinaryKinds == {"Add", "Sub", "Mul", "Div", "Mod", "Min", "Max", "EQ", "NE",
                "LT", "LE", "GT", "GE", "And", "Or"}

\* The root a kind derives from: ExprNode<T> (BaseExprNode) or StmtNode<T>.
Family(k) == IF k \in ExprKinds THEN "Expr" ELSE "Stmt"

E == [fam |-> "Expr", req |-> TRUE]
S == [fam |-> "Stmt", req |-> TRUE]
OptS == [fam |-> "Stmt", req |-> FALSE]

\* The single-handle members of each struct, in declaration order; req is
\* whether the constructor asserts the member defined().
Slots(k) ==
    CASE k \in {"IntImm", "FloatImm", "Var", "Call", "PrintStmt"} -> <<>>
      [] k \in {"Cast", "Not", "Load", "AssertStmt", "Provide"} -> <<E>>
      [] k \in BinaryKinds \cup {"Ramp", "Let", "Store"} -> <<E, E>>
      [] k = "Select" -> <<E, E, E>>
      [] k \in {"LetStmt", "Allocate"} -> <<E, S>>
      [] k = "Pipeline" -> <<S, OptS, S>>
      [] k = "For" -> <<E, E, S>>
      [] k = "Realize" -> <<S>>
      [] k = "Block" -> <<S, OptS>>

\* The vector member of a struct: vector<Expr> args (1 handle an element),
\* vector<pair<Expr, Expr>> bounds (2 handles an element), or none (0).
VecWidth(k) ==
    CASE k \in {"Call", "PrintStmt", "Provide"} -> 1
      [] k = "Realize" -> 2
      [] OTHER -> 0

\* Realize declares bounds before body; the others declare args last.
VecFirst(k) == k = "Realize"

HasWidth(k) == k = "Ramp"

\* A struct that names another struct as its template argument.
AcceptParam_slip(k) == IF k = "Sub" THEN "Add" ELSE k

\* The template argument T of ExprNode<T> / StmtNode<T> a struct derives from.
AcceptParam(k) == k

\* A constructor that initializes its two members from each other's
\* parameter.
Flatten_swapped(k, fixed, vec) ==
    IF Len(fixed) = 2 THEN <<fixed[2], fixed[1]>> \o vec ELSE fixed \o vec

\* The handles a node stores, flattened in declaration order.
Flatten(k, fixed, vec) == IF VecFirst(k) THEN vec \o fixed ELSE fixed \o vec

\* The asserts without the one on Ramp's width.
Precondition_noWidth(k, fixed, vec, w) ==
    /\ \A i \in 1..Len(fixed) : Slots(k)[i].req => fixed[i] # NULL
    /\ \A i \in 1..Len(vec) : vec[i] # NULL

\* The asserts of the constructors: every required member defined(), every
\* element of a vector member defined(), Ramp's w > 0.
Precondition(k, fixed, vec, w) ==
    /\ \A i \in 1..Len(fixed) : Slots(k)[i].req => fixed[i] # NULL
    /\ \A i \in 1..Len(vec) : vec[i] # NULL
    /\ HasWidth(k) => w > 0

\* ------------------------------------------------------------------ heap
Heap == [live |-> live, rc |-> ref_count, kind |-> kind, fld |-> fields,
         bad |-> corrupt]

\* IRHandle::incref on a handle whose node is p.
incref(H, p) == IF p # NULL THEN [H EXCEPT !.rc[p] = @ + 1] ELSE H

RECURSIVE decref(_, _), DestroyFields(_, _, _)

\* `delete node`: ~IRNode destroys the node's handle members, last declared
\* first, then the storage is freed.  Deleting freed storage corrupts the heap.
DeleteNode(H, p) ==
    IF p \notin H.live
    THEN [H EXCEPT !.bad = "double free"]
    ELSE LET H1 == DestroyFields(H, p, Len(H.fld[p]))
         IN  [H1 EXCEPT !.live = @ \ {p}, !.fld[p] = <<>>, !.kind[p] = "none"]

\* IRHandle::decref on a handle whose node is p (the handle's own node = NULL
\* is the caller's to record: see Zeroed).
decref(H, p) ==
    IF p = NULL \/ H.bad # "no"
    THEN H
    ELSE LET H1 == [H EXCEPT !.rc[p] = @ - 1]
         IN  IF H1.rc[p] = 0 THEN DeleteNode(H1, p) ELSE H1

\* IRHandle::~IRHandle of the members 1..i of the node at p.
DestroyFields(H, p, i) ==
    IF i = 0 THEN H ELSE DestroyFields(decref(H, H.fld[p][i]), p, i - 1)

\* decref sets the handle's node to NULL exactly when it deleted the node.
Zeroed(H, p) == p # NULL /\ H.bad = "no" /\ H.rc[p] = 1

RECURSIVE increfAll(_, _, _), decrefAll(_, _, _)
increfAll(H, ps, i) ==
    IF i > Len(ps) THEN H ELSE increfAll(incref(H, ps[i]), ps, i + 1)
decrefAll(H, ps, i) ==
    IF i = 0 THEN H ELSE decrefAll(decref(H, ps[i]), ps, i - 1)

\* `new K(args)` at address p followed by the handle constructor
\* IRHandle(const IRNode *n): the by-value parameters are copies of the
\* caller's handles, IRNode() sets ref_count to 0, the members are
\* copy-constructed from the parameters, the handle increfs the node and
\* the parameters are destroyed.
NewNode(H, p, k, flds, params) ==
    LET H1 == increfAll(H, params, 1)
        H2 == [H1 EXCEPT !.live = @ \cup {p}, !.rc[p] = 0, !.kind[p] = k,
                         !.fld[p] = flds]
        H3 == increfAll(H2, flds, 1)
        H4 == incref(H3, p)
    IN  decrefAll(H4, params, Len(params))

SetHeap(H) ==
    /\ live' = H.live
    /\ ref_count' = H.rc
    /\ kind' = H.kind
    /\ fields' = H.fld
    /\ corrupt' = H.bad

\* IRHandle::defined.
defined(h) == hnd[h] # NULL

\* sameAs with a guard against empty handles, which the code does not have.
sameAs_presentOnly(a, b) == hnd[a] # NULL /\ hnd[a] = hnd[b]

\* IRHandle::sameAs: equality of reference.
sameAs(a, b) == hnd[a] = hnd[b]

NoRequest == [k |-> "none", fixed |-> <<>>, vec |-> <<>>, w |-> 0]
NoOp == [op |-> "none", h |-> 0, src |-> 0]

Running == corrupt = "no" /\ ~aborted /\ faulted <= MaxAfterFault

\* One more operation has run; fault: it read freed storage.
Step(fault) ==
    faulted' = IF faulted > 0 THEN faulted + 1 ELSE IF fault THEN 1 ELSE 0

\* The members of live nodes: a caller that holds a pointer to a node (a
\* visitor is handed one) can name them as the source of a copy or assignment.
FieldRefs == UNION {{<<p, i>> : i \in DOMAIN fields[p]} : p \in live}

\* A handle of static type Expr (Stmt) holds only Expr (Stmt) nodes.
PtrFamilyOK(p, fam) == p = NULL \/ p \notin live \/ Family(kind[p]) = fam

\* Values of the caller's handles, passed as constructor arguments.
HandleValues == {hnd[h] : h \in hset}

\* Argument lists for the single-handle members of kind k.
FixedArgs(k, vals) ==
    {f \in [1..Len(Slots(k)) -> vals] :
        \A i \in 1..Len(Slots(k)) : PtrFamilyOK(f[i], Slots(k)[i].fam)}

\* A new handle object takes the first unused slot (the slots are names).
Fresh(dst) == dst \notin hset /\ \A h \in Handle \ hset : dst <= h

\* operator new returns storage that holds no live node: the free block at
\* the lowest address (first fit), be it never used or freed before.
Allocated(p) == p \in Node \ live /\ \A q \in Node \ live : p <= q

\* --------------------------------------------------- handle operations
\* IRHandle(): a new empty handle.
MakeEmpty(dst) ==
    /\ Running
    /\ Fresh(dst)
    /\ hset' = hset \cup {dst}
    /\ hnd' = [hnd EXCEPT ![dst] = NULL]
    /\ Step(FALSE)
    /\ UNCHANGED <<heapVars, aborted>>

\* Expr dst = new K(fixed, vec, w): the constructor's asserts abort the
\* process; otherwise the node at address p is wrapped in dst.
Construct(dst, p, k, fixed, vec, w) ==
    /\ Running
    /\ Fresh(dst)
    /\ Allocated(p)
    /\ Step(FALSE)
    /\ IF Precondition(k, fixed, vec, w)
       THEN /\ SetHeap(NewNode(Heap, p, k, Flatten(k, fixed, vec), fixed))
            /\ hset' = hset \cup {dst}
            /\ hnd' = [hnd EXCEPT ![dst] = p]
            /\ UNCHANGED aborted
       ELSE /\ aborted' = TRUE
            /\ UNCHANGED <<heapVars, hset, hnd>>

\* IRHandle(const IRNode *n) on a node the caller holds a pointer to.
WrapNode(dst, n) ==
    /\ Running
    /\ Fresh(dst)
    /\ n \in live
    /\ SetHeap(incref(Heap, n))
    /\ hset' = hset \cup {dst}
    /\ hnd' = [hnd EXCEPT ![dst] = n]
    /\ Step(FALSE)
    /\ UNCHANGED aborted

\* IRHandle(const IRHandle &other), other holding v.
CopyOf(dst, v) ==
    /\ Running
    /\ Fresh(dst)
    /\ SetHeap(incref(Heap, v))
    /\ hset' = hset \cup {dst}
    /\ hnd' = [hnd EXCEPT ![dst] = v]
    /\ Step(FALSE)
    /\ UNCHANGED aborted

\* Expr dst = b, for the caller's handle b.
Copy(dst, b) == b \in hset /\ CopyOf(dst, hnd[b])

\* Expr dst = n->member, for a member of a live node.
CopyField(dst, f) == f \in FieldRefs /\ CopyOf(dst, fields[f[1]][f[2]])

\* IRHandle::operator= : decref(); node = other.node; incref().  H1 is the
\* heap after decref(), val what `other.node` then reads.
AssignTail(a, H1, val, fault) ==
    /\ Step(fault)
    /\ SetHeap(IF H1.bad # "no" THEN H1 ELSE incref(H1, val))
    /\ hnd' = [hnd EXCEPT ![a] = IF H1.bad # "no" THEN NULL ELSE val]
    /\ UNCHANGED <<hset, aborted>>

\* a = b for the caller's handles a and b (b may be a itself: decref() has
\* then set other.node to NULL if it deleted the node).
Assign(a, b) ==
    /\ Running
    /\ a \in hset /\ b \in hset
    /\ AssignTail(a, decref(Heap, hnd[a]),
                  IF b = a /\ Zeroed(Heap, hnd[a]) THEN NULL ELSE hnd[b], FALSE)

\* What `other.node` reads from the storage of a deleted node: the pointer
\* the member held, or NULL (the member's destructor or the allocator has
\* cleared the word).
StaleReads(v) == {v, NULL}

\* a = n->member, for a member of a live node.  When decref() has deleted
\* the node that holds the member, other.node is read from freed storage;
\* the word may also hold a wild pointer, through which incref() faults.
AssignField(a, f) ==
    /\ Running
    /\ a \in hset /\ f \in FieldRefs
    /\ LET H1 == decref(Heap, hnd[a])
           v == fields[f[1]][f[2]]
       IN  IF f[1] \in H1.live \/ H1.bad # "no"
           THEN AssignTail(a, H1, v, FALSE)
           ELSE \/ \E val \in StaleReads(v) : AssignTail(a, H1, val, TRUE)
                \/ AssignTail(a, [H1 EXCEPT !.bad = "wild pointer"], NULL, TRUE)

\* IRHandle::~IRHandle.
Destroy(a) ==
    /\ Running
    /\ a \in hset
    /\ SetHeap(decref(Heap, hnd[a]))
    /\ hset' = hset \ {a}
    /\ hnd' = [hnd EXCEPT ![a] = NULL]
    /\ Step(FALSE)
    /\ UNCHANGED aborted

\* ------------------------------------------------ handle lifecycle, one thread
\* The kinds the lifecycle specification builds: no, one and two members.
LifecycleKinds == {"IntImm", "Not", "Add"}

InitState ==
    /\ live = {}
    /\ ref_count = [p \in Node |-> 0]
    /\ kind = [p \in Node |-> "none"]
    /\ fields = [p \in Node |-> <<>>]
    /\ hset = {}
    /\ hnd = [h \in Handle |-> NULL]
    /\ corrupt = "no"
    /\ aborted = FALSE
    /\ faulted = 0
    /\ request = NoRequest
    /\ accepted = NULL
    /\ root = [v \in Visitor |-> NULL]
    /\ stack = [v \in Visitor |-> <<>>]
    /\ visited = [v \in Visitor |-> <<>>]
    /\ probe = [v \in Visitor |-> "none"]
    /\ pc = [t \in Thread |-> "idle"]
    /\ reg = [t \in Thread |-> 0]
    /\ cur = [t \in Thread |-> NoOp]
    /\ lock = 0
    /\ started = 0

\* Every specification but the concurrent one runs one thread: no lock.
Init == InitState /\ sync = FALSE

New(dst) ==
    /\ Cardinality(live) < MaxLifecycleNodes
    /\ \E p \in Node, k \in LifecycleKinds :
        /\ Allocated(p)
        /\ \E fixed \in FixedArgs(k, HandleValues) :
                Construct(dst, p, k, fixed, <<>>, 1)

\* No constructor request is recorded, no visitor and no second thread runs.
NoVisit == UNCHANGED <<request, visitVars, concVars>>

Next ==
    \E a \in Handle :
        \/ MakeEmpty(a) /\ NoVisit
        \/ New(a) /\ NoVisit
        \/ \E n \in Node : WrapNode(a, n) /\ NoVisit
        \/ \E b \in Handle : Copy(a, b) /\ NoVisit
        \/ \E f \in FieldRefs : CopyField(a, f) /\ NoVisit
        \/ \E b \in Handle : Assign(a, b) /\ NoVisit
        \/ \E f \in FieldRefs : AssignField(a, f) /\ NoVisit
        \/ Destroy(a) /\ NoVisit

Spec == Init /\ [][Next]_vars

\* ------------------------------------------------------------ claims, Spec
\* The handles that alias p: the caller's, and the members of live nodes.
NumAliasesIn(hs, hn, lv, fl, p) ==
    Cardinality({h \in hs : hn[h] = p})
    + Cardinality({f \in UNION {{<<q, i>> : i \in DOMAIN fl[q]} : q \in lv} :
                       fl[f[1]][f[2]] = p})
NumAliases(p) == NumAliasesIn(hset, hnd, live, fields, p)

\* The nodes a caller's handle leads to, through members of live nodes.
RECURSIVE ReachFrom(_, _)
ReachFrom(ps, n) ==
    IF n = 0 THEN ps
    ELSE ReachFrom(ps \cup {fields[f[1]][f[2]] : f \in {g \in FieldRefs : g[1] \in ps}}, n - 1)
Reachable == ReachFrom({hnd[h] : h \in hset}, MaxNodes) \ {NULL}

\* C1: in every state a single thread of handle operations reaches, the
\* share count of each live node is the number of handles that alias it
\* (the caller's handles plus the members of live nodes), and no node
\* stays allocated with a count of zero.
C1_ShareCountIsAliasCount ==
    \A p \in live : ref_count[p] = NumAliases(p) /\ ref_count[p] > 0

\* What a = other must establish, other holding `want` and a holding `old`
\* immediately before: a aliases want, want is live and counted for a, and
\* old has lost one share and is freed if that was its last.
AssignPost(a, want, old) ==
    /\ hnd'[a] = want
    /\ want # NULL => /\ want \in live'
                      /\ ref_count'[want] = NumAliasesIn(hset', hnd', live', fields', want)
    /\ (old # NULL /\ old # want) =>
          IF ref_count[old] = 1
          THEN old \notin live'
          ELSE old \in live' /\ ref_count'[old] = ref_count[old] - 1

\* C2: every assignment a = b, from a state no fault has touched (b a
\* handle of the caller, a itself included, or a member of a live node,
\* the node a references included), leaves a aliasing the node b referenced
\* immediately before, that node live and counted for a, and the previous
\* referent of a with one share less, freed if that was its last.
C2_AssignAliasesSource ==
    [][/\ \A a, b \in Handle :
            (faulted = 0 /\ Assign(a, b)) => AssignPost(a, hnd[b], hnd[a])
       /\ \A a \in Handle : \A f \in FieldRefs :
            (faulted = 0 /\ AssignField(a, f))
                => AssignPost(a, fields[f[1]][f[2]], hnd[a])]_vars

\* C3: no present handle, the caller's or a member of a live node,
\* references a deallocated node.
C3_PresentHandleIsLive ==
    /\ \A h \in hset : defined(h) => hnd[h] \in live
    /\ \A f \in FieldRefs : fields[f[1]][f[2]] # NULL => fields[f[1]][f[2]] \in live

\* C6 as stated: a.sameAs(b) iff a and b reference the same underlying
\* node (empty handles reference no node).
C6_SameAsIffSameNode ==
    \A a, b \in hset :
        sameAs(a, b) <=> (defined(a) /\ defined(b) /\ hnd[a] = hnd[b])

BothEmpty(a, b) == ~defined(a) /\ ~defined(b)

\* C6 amended: a.sameAs(b) iff a and b reference the same underlying node
\* or are both empty; a copy is sameAs the handle it was copied from, and
\* handles that reference two different live nodes are never sameAs, also
\* when the nodes have the same kind and equal fields.
C6_SameAsIffSameNodeOrBothEmpty ==
    [][/\ \A a, b \in hset' :
            /\ sameAs(a, b)' <=> \/ BothEmpty(a, b)'
                                 \/ (defined(a) /\ defined(b) /\ hnd[a] = hnd[b])'
            /\ (hnd'[a] \in live' /\ hnd'[b] \in live' /\ hnd'[a] # hnd'[b])
                    => ~sameAs(a, b)'
       /\ \A dst, b \in Handle : Copy(dst, b) => sameAs(dst, b)']_vars

\* C6 witness: two handles share one node and a third references another
\* node of the same kind with equal fields.
C6_Witness ==
    \E a, b, c \in hset :
        /\ a # b /\ hnd[a] \in live /\ sameAs(a, b)
        /\ hnd[c] \in live /\ ~sameAs(a, c)
        /\ kind[hnd[c]] = kind[hnd[a]] /\ fields[hnd[c]] = fields[hnd[a]]
        /\ faulted = 0

\* C10: release is transitive and exact: no storage is deleted twice, every
\* live node is reachable from a handle of the caller, and once the caller
\* holds no handle no node is left allocated.
C10_ReleaseExact ==
    /\ corrupt # "double free"
    /\ live \subseteq Reachable
    /\ hset = {} => live = {}

\* ------------------------------------- node catalog: construction and dispatch
\* The kinds whose nodes serve as operands of the node under construction: a
\* leaf expression and a statement.
OperandKinds == {"IntImm", "PrintStmt"}

\* The operands are built first: the operand kinds no live node has yet.
MissingOperands == {k \in OperandKinds : \A q \in live : kind[q] # k}

\* Lane counts passed to Ramp.
Widths == {-1, 0, 1, 2}

\* What a caller can pass for a handle parameter: one of its handles' values
\* or an empty temporary.
ArgValues == HandleValues \cup {NULL}

\* Argument vectors for the vector member of kind k (elements are Expr).
VecArgs(k, vals) ==
    UNION {{v \in [1..(n * VecWidth(k)) -> vals] :
                \A i \in 1..(n * VecWidth(k)) : PtrFamilyOK(v[i], "Expr")} :
           n \in 0..MaxVec}

\* Expr/Stmt dst = new K(...), for every kind K of the catalog and every
\* combination of present and empty arguments.
CatalogNew(dst) ==
    /\ Running
    /\ Fresh(dst)
    /\ Cardinality(live) < MaxCatalogNodes
    /\ \A q \in live : kind[q] \in OperandKinds
    /\ \E p \in Node, k \in Kinds :
        /\ Allocated(p)
        /\ MissingOperands # {} => k \in MissingOperands
        /\ \E fixed \in FixedArgs(k, ArgValues), vec \in VecArgs(k, ArgValues),
              w \in IF HasWidth(k) THEN Widths ELSE {1} :
                /\ Construct(dst, p, k, fixed, vec, w)
                /\ request' = [k |-> k, fixed |-> fixed, vec |-> vec, w |-> w]
                /\ UNCHANGED <<visitVars, concVars>>

\* ExprNode<T>::accept / StmtNode<T>::accept on the node at p, reached
\* through member number via of the node parent (NULL and 0: through a
\* caller's handle): the one call v->visit((const T *)this).
NodeAccept(p, parent, via) ==
    [visit |-> AcceptParam(kind[p]), node |-> p, parent |-> parent, via |-> via]

\* accept on a handle that keeps its node alive during the call, which the
\* code does not do.
accept_retaining(H, p) == incref(H, p)

\* IRHandle::accept is const and forwards to the node's accept, which is
\* const too: the heap after the call is the heap before it.
accept(H, p) == H

\* h.accept(v) for visitor 1, a visitor whose visit operations only record
\* the call.
Accept(h) ==
    /\ Running
    /\ h \in hset /\ hnd[h] \in live
    /\ SetHeap(accept(Heap, hnd[h]))
    /\ accepted' = hnd[h]
    /\ visited' = [visited EXCEPT ![1] = <<NodeAccept(hnd[h], NULL, 0)>>]
    /\ UNCHANGED <<hset, hnd, aborted, faulted, request, root, stack, probe,
                   concVars>>

NextCatalog ==
    \E a \in Handle :
        \/ CatalogNew(a)
        \/ Accept(a)

SpecCatalog == Init /\ [][NextCatalog]_vars

\* --------------------------------------------------- claims, SpecCatalog
\* The members the catalog lets be empty.
OptionalMember(k, i) == (k = "Pipeline" /\ i = 2) \/ (k = "Block" /\ i = 2)

\* A constructor request with an empty required child or a bad lane count.
BadRequest(r) ==
    \/ \E i \in DOMAIN r.fixed : ~OptionalMember(r.k, i) /\ r.fixed[i] = NULL
    \/ \E i \in DOMAIN r.vec : r.vec[i] = NULL
    \/ r.k = "Ramp" /\ r.w <= 0

\* The members of the node at p that must be present.
RequiredPresent(p) ==
    \A i \in DOMAIN fields[p] :
        LET j == IF kind[p] = "Realize" THEN i - (Len(fields[p]) - 1) ELSE i
        IN  (j < 1 \/ ~OptionalMember(kind[p], j)) => fields[p][i] \in live

\* C4: a constructor call fails, and its node does not come to exist, exactly
\* when a required child handle is empty or Ramp's lane count is <= 0; it
\* succeeds otherwise (Pipeline without update, Block without rest, Ramp of
\* width >= 1), and every node in existence has its required children present.
C4_ConstructionFailsIffBadRequest ==
    /\ request # NoRequest => (aborted <=> BadRequest(request))
    /\ aborted => \A h \in hset : hnd[h] \in live => kind[hnd[h]] \in OperandKinds
    /\ \A p \in live : RequiredPresent(p)

\* C4 witness: a Pipeline without update, a Block without rest or a Ramp of
\* positive width has been constructed.
C4_Witness ==
    /\ ~aborted
    /\ \E h \in hset :
        /\ hnd[h] \in live
        /\ \/ kind[hnd[h]] = "Pipeline" /\ fields[hnd[h]][2] = NULL
           \/ kind[hnd[h]] = "Block" /\ fields[hnd[h]][2] = NULL
           \/ kind[hnd[h]] = "Ramp" /\ request.w >= 1
        /\ request.k = kind[hnd[h]]

\* C5: accept on a present handle whose node is of kind K calls exactly one
\* visit operation, the one for K, with that node, and nothing else: it
\* leaves every node, count and handle as it was.
C5_AcceptDispatchesOnKind ==
    [][\A h \in Handle :
          Accept(h) =>
            /\ kind[hnd[h]] \in Kinds
            /\ Len(visited'[1]) = 1
            /\ visited'[1][1].visit = kind[hnd[h]]
            /\ visited'[1][1].node = hnd[h]
            /\ UNCHANGED <<heapVars, hset, hnd>>]_vars

\* C5 witness: accept has run on a handle to a For node, whose three children
\* are present, and the visitor has received the one call visit(For).
C5_Witness ==
    /\ accepted \in live
    /\ kind[accepted] = "For"
    /\ \A i \in 1..3 : fields[accepted][i] \in live
    /\ visited[1] = <<[visit |-> "For", node |-> accepted, parent |-> NULL,
                       via |-> 0]>>

\* ------------------------------------------------------------ traversal
\* The accept calls a traversing visitor makes from its visit operation for
\* the node at p: one on each member handle that is defined(), in
\* declaration order, from member i on.
RECURSIVE Children(_, _)
Children(p, i) ==
    IF i > Len(fields[p]) THEN <<>>
    ELSE (IF fields[p][i] # NULL
          THEN <<[node |-> fields[p][i], parent |-> p, via |-> i]>>
          ELSE <<>>) \o Children(p, i + 1)

\* No visitor has started.
Idle == \A v \in Visitor : root[v] = NULL

\* Visitor v has returned from the accept call on its root.
Done(v) == root[v] # NULL /\ stack[v] = <<>>

\* Visitor v checks h.defined(), reads h.sameAs(g), g the caller's first
\* handle, and calls h.accept(v).
Begin(v, h, g) ==
    /\ Running
    /\ root[v] = NULL
    /\ h \in hset /\ g \in hset
    /\ \A x \in hset : g <= x
    /\ defined(h) /\ hnd[h] \in live
    /\ root' = [root EXCEPT ![v] = hnd[h]]
    /\ stack' = [stack EXCEPT ![v] = <<[node |-> hnd[h], parent |-> NULL, via |-> 0]>>]
    /\ probe' = [probe EXCEPT ![v] = IF sameAs(h, g) THEN "same" ELSE "different"]
    /\ UNCHANGED <<heapVars, hset, hnd, aborted, faulted, request, accepted,
                   visited, concVars>>

\* The next accept call of visitor v: the node dispatches to the visit
\* operation of its kind, which queues the accept calls on its members.
VisitNext(v) ==
    /\ Running
    /\ stack[v] # <<>>
    /\ LET e == Head(stack[v])
       IN  /\ SetHeap(accept(Heap, e.node))
           /\ visited' = [visited EXCEPT
                            ![v] = Append(@, NodeAccept(e.node, e.parent, e.via))]
           /\ stack' = [stack EXCEPT ![v] = Children(e.node, 1) \o Tail(@)]
    /\ UNCHANGED <<hset, hnd, aborted, faulted, request, accepted, root, probe,
                   concVars>>

\* ------------------------------------------------------------ Block chains
\* Stmt dst = new Block(new PrintStmt(..), rest), rest a Block the caller
\* holds or empty: the first statement is built at s and wrapped in a
\* temporary handle, the Block at p takes a copy, the temporary is destroyed.
BlockNew(dst) ==
    /\ Idle
    /\ Running
    /\ Fresh(dst)
    /\ Cardinality({q \in live : kind[q] = "Block"}) < MaxBlocks
    /\ \E s, p \in Node :
        /\ Allocated(s)
        /\ p \in Node \ (live \cup {s})
        /\ \A q \in Node \ (live \cup {s}) : p <= q
        /\ \E rest \in {x \in ArgValues :
                           x = NULL \/ (x \in live /\ kind[x] = "Block")} :
            /\ Precondition("Block", <<s, rest>>, <<>>, 1)
            /\ LET H1 == NewNode(Heap, s, "PrintStmt", <<>>, <<>>)
                   H2 == NewNode(H1, p, "Block",
                                 Flatten("Block", <<s, rest>>, <<>>), <<s, rest>>)
               IN  SetHeap(decref(H2, s))
            /\ hset' = hset \cup {dst}
            /\ hnd' = [hnd EXCEPT ![dst] = p]
    /\ Step(FALSE)
    /\ UNCHANGED aborted
    /\ NoVisit

NextBlock ==
    \/ \E a \in Handle : BlockNew(a)
    \/ \E a \in Handle : Idle /\ Destroy(a) /\ NoVisit
    \/ \E h, g \in Handle : Begin(1, h, g) /\ kind[hnd[h]] = "Block"
    \/ VisitNext(1)

\* A visitor that has been called returns control only by finishing its
\* step: the thread that runs it keeps running.
SpecBlock == Init /\ [][NextBlock]_vars /\ WF_vars(VisitNext(1))

\* ---------------------------------------------------- claims, SpecBlock
\* The first statements along the chain of Blocks that starts at p, and the
\* Blocks themselves (n bounds the walk).
RECURSIVE ChainFirsts(_, _), ChainBlocks(_, _)
ChainFirsts(p, n) ==
    IF p = NULL \/ n = 0 THEN <<>>
    ELSE <<fields[p][1]>> \o ChainFirsts(fields[p][2], n - 1)
ChainBlocks(p, n) ==
    IF p = NULL \/ n = 0 THEN <<>>
    ELSE <<p>> \o ChainBlocks(fields[p][2], n - 1)

\* The chain from p ends within the number of nodes, at an empty rest, and
\* passes no Block twice.
ChainEnds(p) ==
    LET c == ChainBlocks(p, MaxNodes + 1)
    IN  /\ Len(c) <= MaxNodes
        /\ \A i, j \in 1..Len(c) : i # j => c[i] # c[j]

\* The nodes visitor v was dispatched to through member `via` of a Block.
VisitsVia(v, via) ==
    LET sel == SelectSeq(visited[v],
                 LAMBDA e : e.parent # NULL /\ kind[e.parent] = "Block" /\ e.via = via)
    IN  [i \in 1..Len(sel) |-> sel[i].node]

\* C9: a chain of Blocks is finite and acyclic (each first present, each rest
\* a Block or empty); the traversal of the chain terminates, and when it has
\* it has dispatched on the first statements of the N Blocks of the chain,
\* once each, in chain order (one visit for a Block without rest).
C9_BlockChainTraversal ==
    /\ [](\A p \in live : kind[p] = "Block" =>
              /\ fields[p][1] \in live
              /\ fields[p][2] # NULL => fields[p][2] \in live /\ kind[fields[p][2]] = "Block"
              /\ ChainEnds(p))
    /\ [](Done(1) => /\ VisitsVia(1, 1) = ChainFirsts(root[1], MaxNodes)
                     /\ <<root[1]>> \o VisitsVia(1, 2) = ChainBlocks(root[1], MaxNodes))
    /\ (root[1] # NULL) ~> Done(1)

\* C9 witness: the traversal of a chain of three Blocks has finished, with
\* three dispatches on first statements.
C9_Witness ==
    /\ Done(1)
    /\ Len(ChainBlocks(root[1], MaxNodes)) = 3
    /\ Len(VisitsVia(1, 1)) = 3

\* -------------------------------------------------- concurrent reading
\* Expr dst = new K(...) or a copy, building a shared expression.
ReadNew(dst) ==
    /\ Idle
    /\ Cardinality(live) < MaxReadNodes
    /\ \E p \in Node, k \in LifecycleKinds :
        /\ Allocated(p)
        /\ \E fixed \in FixedArgs(k, HandleValues) :
                Construct(dst, p, k, fixed, <<>>, 1)
    /\ NoVisit

NextRead ==
    \/ \E a \in Handle : ReadNew(a)
    \/ \E a, b \in Handle : Idle /\ Copy(a, b) /\ NoVisit
    \/ \E v \in Visitor : \E h, g \in Handle : Begin(v, h, g)
    \/ \E v \in Visitor : VisitNext(v)

SpecRead == Init /\ [][NextRead]_vars

\* ------------------------------------------------------ claims, SpecRead
\* The visit operations a traversal from p receives when it runs alone.
RECURSIVE Preorder(_, _, _), PreorderFrom(_, _)
Preorder(p, parent, via) ==
    <<[visit |-> kind[p], node |-> p, parent |-> parent, via |-> via]>>
        \o PreorderFrom(p, 1)
PreorderFrom(p, i) ==
    IF i > Len(fields[p]) THEN <<>>
    ELSE (IF fields[p][i] = NULL THEN <<>> ELSE Preorder(fields[p][i], p, i))
            \o PreorderFrom(p, i + 1)

IsPrefix(s, t) == Len(s) <= Len(t) /\ \A i \in 1..Len(s) : s[i] = t[i]

\* C7: while visitors call accept, defined and sameAs concurrently, no node
\* field, handle referent or share count changes and no node is deallocated;
\* under every interleaving each visitor receives the visit operations it
\* receives alone, and what sameAs told it stays true.
C7_ConcurrentReadsSafe ==
    /\ [][(\E v \in Visitor : root'[v] # NULL)
            => UNCHANGED <<live, ref_count, kind, fields, corrupt, hset, hnd>>]_vars
    /\ [](\A v \in Visitor : root[v] # NULL =>
            /\ IsPrefix(visited[v], Preorder(root[v], NULL, 0))
            /\ Done(v) => visited[v] = Preorder(root[v], NULL, 0)
            /\ \E h, g \in hset : /\ hnd[h] = root[v]
                                  /\ \A x \in hset : g <= x
                                  /\ (probe[v] = "same") <=> (hnd[g] = root[v]))

\* C7 witness: two visitors are both part-way through the same node with two
\* members, at different places.
C7_Witness ==
    \E v, w \in Visitor :
        /\ v # w
        /\ root[v] = root[w] /\ root[v] \in live
        /\ Len(fields[root[v]]) = 2
        /\ stack[v] # <<>> /\ stack[w] # <<>>
        /\ Len(visited[v]) > Len(visited[w]) /\ Len(visited[w]) > 0

\* ------------------------------------------- handle operations, threads
\* incref and decref compiled for one thread: `node->ref_count++` is a load,
\* an add and a store, `node->ref_count--` likewise, and the test that
\* follows loads the word again.  Threads interleave between these steps.

\* A store of incref that writes back the count it loaded.
Increment_lost(c) == c

\* The value `node->ref_count++` stores, having loaded c.
Increment(c) == c + 1

\* The value `node->ref_count--` stores, having loaded c.
Decrement(c) == c - 1

\* `if (node->ref_count == 0)`, the word being c.
ShouldDelete(c) == c = 0

\* Handle h is being written by a thread, or read as the source of an
\* assignment that has not yet loaded it.
Busy(h) == \E t \in Thread : pc[t] # "idle" /\ (cur[t].h = h \/ cur[t].src = h)

\* Thread t starts an operation: with the callers' lock, it takes the lock.
Acquire(t) ==
    /\ Running
    /\ pc[t] = "idle"
    /\ started < MaxOps
    /\ started' = started + 1
    /\ IF sync THEN lock = 0 /\ lock' = t ELSE UNCHANGED lock

\* Thread t ends its operation.
Finish(t) ==
    /\ pc' = [pc EXCEPT ![t] = "idle"]
    /\ cur' = [cur EXCEPT ![t] = NoOp]
    /\ reg' = [reg EXCEPT ![t] = 0]
    /\ lock' = IF sync THEN 0 ELSE lock

\* Thread t touches the ref_count word of a node that has been deleted.
UseAfterFree(t) ==
    /\ corrupt' = "use after free"
    /\ UNCHANGED <<live, ref_count, kind, fields, hset, hnd, pc, reg, cur, lock>>

\* Expr dst = new IntImm(..) in thread t: the node is the thread's own until
\* the handle has been shared.
ConcNew(t, dst) ==
    /\ pc[t] = "idle"
    /\ started < MaxOps
    /\ started' = started + 1
    /\ sync => lock = 0
    /\ Cardinality(live) < MaxConcNodes
    /\ \E p \in Node : Allocated(p) /\ Construct(dst, p, "IntImm", <<>>, <<>>, 1)
    /\ UNCHANGED <<request, visitVars, pc, reg, cur, lock, sync>>

\* Expr dst = b in thread t: node(other.node), then incref() step by step.
CopyBegin(t, dst, b) ==
    /\ Acquire(t)
    /\ Fresh(dst)
    /\ b \in hset /\ ~Busy(b)
    /\ hset' = hset \cup {dst}
    /\ hnd' = [hnd EXCEPT ![dst] = hnd[b]]
    /\ cur' = [cur EXCEPT ![t] = [op |-> "copy", h |-> dst, src |-> 0]]
    /\ pc' = [pc EXCEPT ![t] = "inc_read"]
    /\ UNCHANGED <<heapVars, reg>>

\* a = b in thread t: decref(), node = other.node, incref(), step by step.
AssignBegin(t, a, b) ==
    /\ Acquire(t)
    /\ a \in hset /\ b \in hset
    /\ ~Busy(a) /\ ~Busy(b)
    /\ cur' = [cur EXCEPT ![t] = [op |-> "assign", h |-> a, src |-> b]]
    /\ pc' = [pc EXCEPT ![t] = "dec_read"]
    /\ UNCHANGED <<heapVars, hset, hnd, reg>>

\* ~IRHandle of a in thread t: decref() step by step.
DestroyBegin(t, a) ==
    /\ Acquire(t)
    /\ a \in hset /\ ~Busy(a)
    /\ cur' = [cur EXCEPT ![t] = [op |-> "destroy", h |-> a, src |-> 0]]
    /\ pc' = [pc EXCEPT ![t] = "dec_read"]
    /\ UNCHANGED <<heapVars, hset, hnd, reg>>

\* decref() has returned, the handle holding hn[h]: a destructor is done,
\* an assignment goes on to load other.node.
AfterDecref(t, hn) ==
    IF cur[t].op = "destroy"
    THEN /\ hset' = hset \ {cur[t].h}
         /\ hnd' = [hn EXCEPT ![cur[t].h] = NULL]
         /\ Finish(t)
    ELSE /\ hset' = hset
         /\ hnd' = hn
         /\ pc' = [pc EXCEPT ![t] = "load"]
         /\ UNCHANGED <<cur, reg, lock>>

\* decref: `if (node)`, then the load of node->ref_count--.
DecRead(t) ==
    /\ Running
    /\ pc[t] = "dec_read"
    /\ LET p == hnd[cur[t].h]
       IN  IF p = NULL
           THEN AfterDecref(t, hnd) /\ UNCHANGED heapVars
           ELSE IF p \notin live
           THEN UseAfterFree(t)
           ELSE /\ reg' = [reg EXCEPT ![t] = ref_count[p]]
                /\ pc' = [pc EXCEPT ![t] = "dec_write"]
                /\ UNCHANGED <<heapVars, hset, hnd, cur, lock>>

\* decref: the store of node->ref_count--.
DecWrite(t) ==
    /\ Running
    /\ pc[t] = "dec_write"
    /\ LET p == hnd[cur[t].h]
       IN  IF p \notin live
           THEN UseAfterFree(t)
           ELSE /\ ref_count' = [ref_count EXCEPT ![p] = Decrement(reg[t])]
                /\ pc' = [pc EXCEPT ![t] = "dec_test"]
                /\ UNCHANGED <<live, kind, fields, corrupt, hset, hnd, reg, cur, lock>>

\* decref: `if (node->ref_count == 0) { delete node; node = NULL; }`.
DecTest(t) ==
    /\ Running
    /\ pc[t] = "dec_test"
    /\ LET p == hnd[cur[t].h]
       IN  IF p \notin live
           THEN UseAfterFree(t)
           ELSE IF ShouldDelete(ref_count[p])
           THEN /\ SetHeap(DeleteNode(Heap, p))
                /\ AfterDecref(t, [hnd EXCEPT ![cur[t].h] = NULL])
           ELSE /\ UNCHANGED heapVars
                /\ AfterDecref(t, hnd)

\* operator=: node = other.node.
Load(t) ==
    /\ Running
    /\ pc[t] = "load"
    /\ hnd' = [hnd EXCEPT ![cur[t].h] = hnd[cur[t].src]]
    /\ cur' = [cur EXCEPT ![t].src = 0]
    /\ pc' = [pc EXCEPT ![t] = "inc_read"]
    /\ UNCHANGED <<heapVars, hset, reg, lock>>

\* incref: `if (node)`, then the load of node->ref_count++.
IncRead(t) ==
    /\ Running
    /\ pc[t] = "inc_read"
    /\ LET p == hnd[cur[t].h]
       IN  IF p = NULL
           THEN Finish(t) /\ UNCHANGED <<heapVars, hset, hnd>>
           ELSE IF p \notin live
           THEN UseAfterFree(t)
           ELSE /\ reg' = [reg EXCEPT ![t] = ref_count[p]]
                /\ pc' = [pc EXCEPT ![t] = "inc_write"]
                /\ UNCHANGED <<heapVars, hset, hnd, cur, lock>>

\* incref: the store of node->ref_count++.
IncWrite(t) ==
    /\ Running
    /\ pc[t] = "inc_write"
    /\ LET p == hnd[cur[t].h]
       IN  IF p \notin live
           THEN UseAfterFree(t)
           ELSE /\ ref_count' = [ref_count EXCEPT ![p] = Increment(reg[t])]
                /\ Finish(t)
                /\ UNCHANGED <<live, kind, fields, corrupt, hset, hnd>>

\* The first step of an operation, which Acquire counts.
ThreadStart(A) ==
    A /\ UNCHANGED <<aborted, faulted, request, visitVars, sync>>

\* The later steps of an operation leave everything else alone.
ThreadStep(A) ==
    A /\ UNCHANGED <<aborted, faulted, request, visitVars, sync, started>>

\* The callers either serialize every handle operation with one lock, or
\* use none.
InitConc == InitState /\ sync \in BOOLEAN

NextConc ==
    \E t \in Thread :
        \/ \E a \in Handle : ConcNew(t, a)
        \/ \E a, b \in Handle : ThreadStart(CopyBegin(t, a, b))
        \/ \E a, b \in Handle : ThreadStart(AssignBegin(t, a, b))
        \/ \E a \in Handle : ThreadStart(DestroyBegin(t, a))
        \/ ThreadStep(DecRead(t))
        \/ ThreadStep(DecWrite(t))
        \/ ThreadStep(DecTest(t))
        \/ ThreadStep(Load(t))
        \/ ThreadStep(IncRead(t))
        \/ ThreadStep(IncWrite(t))

SpecConc == InitConc /\ [][NextConc]_vars

\* ------------------------------------------------------ claims, SpecConc
\* No thread is inside a handle operation.
Quiescent == \A t \in Thread : pc[t] = "idle"

\* A node's share count differs from the number of handles that alias it, a
\* handle references a deleted node, or a thread has touched one.
CountsBroken ==
    \/ \E p \in live : ref_count[p] # NumAliases(p)
    \/ \E h \in hset : hnd[h] # NULL /\ hnd[h] \notin live
    \/ corrupt # "no"

\* C8: a state between operations in which a share count differs from the
\* number of aliasing handles, or a handle references a deleted node, is
\* reached only when the threads run handle operations with no
\* synchronization; serialized by one lock, at most one thread is inside an
\* operation and no thread ever touches a deleted node.
C8_RaceOnlyWithoutSynchronization ==
    /\ (Quiescent /\ CountsBroken) => ~sync
    /\ sync => /\ corrupt = "no"
               /\ \A t, u \in Thread : (pc[t] # "idle" /\ pc[u] # "idle") => t = u

\* C8 witness: after unsynchronized operations of two threads have all
\* completed, a live node's count differs from the number of its aliases.
C8_Witness ==
    /\ ~sync
    /\ Quiescent
    /\ corrupt = "no"
    /\ \E p \in live : ref_count[p] # NumAliases(p)

====
